---- MODULE Spec2Model ----
(***************************************************************************)
(* Model of lightning_pose_app/backend/video.py: the keypoint and pixel    *)
(* motion-energy estimators, read_nth_frames, make_video_snippet and       *)
(* copy_and_reformat_video.                                                *)
(*                                                                         *)
(* Floating point values are modelled exactly: a float is a sequence,      *)
(* <<v>> for the number v and <<>> for not-a-number.  Motion energies are  *)
(* kept in units of 1/Unit(K) (K the number of keypoints), so that the     *)
(* mean over any subset of K keypoints is an integer number of units.      *)
(***************************************************************************)
EXTENDS Integers, Sequences, FiniteSets

VARIABLES
    \* compute_motion_energy_from_predection_df
    df,                 \* the prediction table: rows of (x, y, confidence) triples
    likelihood_thresh,  \* the confidence threshold, in tenths
    me,                 \* what the keypoint estimator returned
    \* the video file and read_nth_frames
    video,              \* the file at video_file: exists, openable, fps2, frame_total, pixels
    n,                  \* read_nth_frames: the stride
    work,               \* the progress observer: present, progress
    progress_delta,     \* in units of 1/ProgressScale percent
    pc,                 \* read_nth_frames: where the call is
    cap_open,           \* read_nth_frames: cap.isOpened()
    frames,             \* read_nth_frames: the frames appended so far
    frame_counter,      \* read_nth_frames: the frames read so far
    progress_log,       \* work.progress on entry, then every value written to it
    \* make_video_snippet
    preds_file,         \* "none" or "given" (the table df)
    clip_length,        \* seconds
    pandas_allnan,      \* what Series.argmax does on an all-NaN series in the installed pandas
                        \* (an all-NaN series arises only from a prediction table)
    dst,                \* the file at the snippet's destination path
    ret,                \* what the last call returned
    calls,              \* calls of make_video_snippet so far
    n_me,               \* motion-energy computations so far
    n_copy,             \* shutil.copyfile invocations so far
    n_trim,             \* ffmpeg trimming invocations so far
    leaked,             \* handles still open when the call that opened them ended
    \* copy_and_reformat_video
    src_fs,             \* video name -> the file at the source path
    dst_fs,             \* video name -> the file at the destination path
    copy_ret            \* the last call of copy_and_reformat_video and what it returned

meVars == <<df, likelihood_thresh, me>>

readVars == <<n, work, progress_delta, pc, cap_open, frames, frame_counter, progress_log>>

snipVars == <<preds_file, clip_length, pandas_allnan, dst, ret, calls, n_me, n_copy,
              n_trim, leaked>>

copyVars == <<src_fs, dst_fs, copy_ret>>

vars == <<meVars, video, readVars, snipVars, copyVars>>

----------------------------------------------------------------------------
(* Bounds of the model. *)

MaxRows == 2

(* Program constants. *)

DefaultLikelihoodThresh == 9

----------------------------------------------------------------------------
(* Floats. *)

NaN == <<>>

Num(v) == <<v>>

IsNaN(x) == x = NaN

Val(x) == x[1]

RECURSIVE SumSeq(_)
SumSeq(s) == IF s = <<>> THEN 0 ELSE Head(s) + SumSeq(Tail(s))

RECURSIVE Fact(_)
Fact(k) == IF k <= 1 THEN 1 ELSE k * Fact(k - 1)

Unit(K) == Fact(K)

Abs(a) == IF a < 0 THEN -a ELSE a

(* Integer square root; exact on the perfect squares the coordinates give. *)
ISqrt(k) == CHOOSE r \in 0..k : r * r <= k /\ k < (r + 1) * (r + 1)

----------------------------------------------------------------------------
(* compute_motion_energy_from_predection_df *)

(* kps[conf2 < likelihood_thresh] = np.nan: both coordinates of a keypoint *)
(* whose confidence is below the threshold become not-a-number.            *)
MaskAtOrBelow(cell, thresh) ==
    IF cell.c <= thresh
    THEN [x |-> NaN, y |-> NaN]
    ELSE [x |-> Num(cell.x), y |-> Num(cell.y)]

MaskBelow(cell, thresh) ==
    IF cell.c < thresh
    THEN [x |-> NaN, y |-> NaN]
    ELSE [x |-> Num(cell.x), y |-> Num(cell.y)]

MaskedKps(table, thresh) ==
    [i \in 1..Len(table) |->
        [k \in 1..Len(table[i]) |-> MaskBelow(table[i][k], thresh)]]

(* np.linalg.norm(kps[1:] - kps[:-1], axis=2) for one keypoint of one pair *)
(* of frames: not-a-number as soon as one of the four coordinates is.      *)
Displacement(p, q) ==
    IF IsNaN(p.x) \/ IsNaN(p.y) \/ IsNaN(q.x) \/ IsNaN(q.y)
    THEN NaN
    ELSE Num(ISqrt((Val(q.x) - Val(p.x)) * (Val(q.x) - Val(p.x))
                 + (Val(q.y) - Val(p.y)) * (Val(q.y) - Val(p.y))))

RECURSIVE NanSum(_)
NanSum(s) ==
    IF s = <<>> THEN 0
    ELSE (IF IsNaN(Head(s)) THEN 0 ELSE Val(Head(s))) + NanSum(Tail(s))

RECURSIVE NanCount(_)
NanCount(s) ==
    IF s = <<>> THEN 0
    ELSE (IF IsNaN(Head(s)) THEN 0 ELSE 1) + NanCount(Tail(s))

(* np.nanmean over the keypoints, in units of 1/Unit(K). *)
NanMean(s) ==
    IF NanCount(s) = 0
    THEN NaN
    ELSE Num((NanSum(s) * Unit(Len(s))) \div NanCount(s))

compute_motion_energy_from_predection_df(table, thresh) ==
    LET kps == MaskedKps(table, thresh)
        norms(i) == [k \in 1..Len(kps[i]) |-> Displacement(kps[i - 1][k], kps[i][k])]
    IN  [i \in 1..Len(table) |-> IF i = 1 THEN Num(0) ELSE NanMean(norms(i))]

----------------------------------------------------------------------------
(* The prediction tables the estimator is applied to. *)

Positions == {<<0, 0>>, <<3, 4>>}

ConfLevels == {DefaultLikelihoodThresh - 1, DefaultLikelihoodThresh,
               DefaultLikelihoodThresh + 1}

Cells == {[x |-> p[1], y |-> p[2], c |-> c] : p \in Positions, c \in ConfLevels}

TableRows == Cells \X Cells

RECURSIVE SeqsUpTo(_, _)
SeqsUpTo(S, len) ==
    IF len = 0 THEN {<<>>}
    ELSE LET shorter == SeqsUpTo(S, len - 1)
         IN  shorter \cup {Append(s, e) : s \in {t \in shorter : Len(t) = len - 1}, e \in S}

NoReturn == [returned |-> FALSE]

Returned(v) == [returned |-> TRUE, value |-> v]

----------------------------------------------------------------------------
(* The video file.  fps2 is the frame rate in half frames per second, so   *)
(* that int(fps * clip_length) and int(clip_start_idx / fps) truncate.     *)
(* pixels holds, per decodable frame, the flattened pixels of the frame as *)
(* read_nth_frames keeps it (resized, colour converted; float16 holds the  *)
(* 8-bit samples and their differences exactly).  frame_total is the       *)
(* container's CAP_PROP_FRAME_COUNT, which need not be Len(pixels).        *)

FrameValues == {<<0, 0>>, <<1, 0>>, <<1, 1>>}

(* cv2.VideoCapture(video_file).isOpened() *)
Opens(v) == v.exists /\ v.openable

(* video.get(cv2.CAP_PROP_FPS), in half frames per second: 0 when not opened *)
CapFps2(v) == IF Opens(v) THEN v.fps2 ELSE 0

(* cap.get(cv2.CAP_PROP_FRAME_COUNT): 0 when not opened *)
CapFrameCount(v) == IF Opens(v) THEN v.frame_total ELSE 0

MissingVideo ==
    [exists |-> FALSE, openable |-> FALSE, fps2 |-> 0, frame_total |-> 0, pixels |-> <<>>]

----------------------------------------------------------------------------
(* read_nth_frames, one step per statement group of its loop. *)

(* round(x, 4) keeps 1/ProgressScale of a percent *)
ProgressScale == 10000

FullProgress == 100 * ProgressScale

(* a / b rounded to the nearest integer, ties to even, for a >= 0, b > 0 *)
RoundDiv(a, b) ==
    LET q == a \div b
        r == a % b
    IN  IF 2 * r < b THEN q
        ELSE IF 2 * r > b THEN q + 1
        ELSE IF q % 2 = 0 THEN q ELSE q + 1

(* round(frame_counter / frame_total * 100.0, 4) *)
RoundedProgress(fc, ft) == RoundDiv(fc * FullProgress, ft)

UncappedProgress(fc, ft) == RoundedProgress(fc, ft)

(* if progress > 100: 100.0, else: round(progress, 4) *)
CappedProgress(fc, ft) == IF fc > ft THEN FullProgress ELSE RoundedProgress(fc, ft)

(* lines 315-320: the value of work.progress after frame fc of ft *)
WritesProgress(w, delta, fc, ft) ==
    w.present /\ RoundedProgress(fc, ft) - w.progress >= delta

UpdatedProgress(w, delta, fc, ft) ==
    IF WritesProgress(w, delta, fc, ft)
    THEN [w EXCEPT !.progress = CappedProgress(fc, ft)]
    ELSE w

RnfOpen ==
    /\ pc = "start"
    /\ cap_open' = Opens(video)
    /\ frames' = <<>>
    /\ frame_counter' = 0
    /\ pc' = "loop"
    /\ UNCHANGED <<n, work, progress_delta, progress_log>>
    /\ UNCHANGED <<meVars, video, snipVars, copyVars>>

(* cap.read() returned a frame *)
RnfReadFrame ==
    /\ pc = "loop"
    /\ cap_open
    /\ frame_counter < Len(video.pixels)
    /\ frames' = IF frame_counter % n = 0
                 THEN Append(frames, video.pixels[frame_counter + 1])
                 ELSE frames
    /\ frame_counter' = frame_counter + 1
    /\ IF CapFrameCount(video) = 0
       THEN \* frame_counter / frame_total: ZeroDivisionError, cap is not released
            /\ pc' = "raised"
            /\ UNCHANGED <<work, progress_log>>
       ELSE /\ pc' = "loop"
            /\ work' = UpdatedProgress(work, progress_delta, frame_counter + 1,
                                       CapFrameCount(video))
            /\ progress_log' = IF WritesProgress(work, progress_delta, frame_counter + 1,
                                                 CapFrameCount(video))
                               THEN Append(progress_log, work'.progress)
                               ELSE progress_log
    /\ UNCHANGED <<n, progress_delta, cap_open>>
    /\ UNCHANGED <<meVars, video, snipVars, copyVars>>

(* the loop ends (cap not opened, or cap.read() failed) and cap is released *)
RnfRelease ==
    /\ pc = "loop"
    /\ ~cap_open \/ frame_counter = Len(video.pixels)
    /\ cap_open' = FALSE
    /\ pc' = "done"
    /\ UNCHANGED <<n, work, progress_delta, frames, frame_counter, progress_log>>
    /\ UNCHANGED <<meVars, video, snipVars, copyVars>>

(* the frames at the 0-based positions 0, stride, 2 * stride, ... *)
EveryNth(s, stride) ==
    [k \in 1..((Len(s) + stride - 1) \div stride) |-> s[(k - 1) * stride + 1]]

(* What a whole call of read_nth_frames without observer comes to. *)
read_nth_frames(v, stride) ==
    IF ~Opens(v) THEN [raised |-> FALSE, frames |-> <<>>, cap_left_open |-> FALSE]
    ELSE IF Len(v.pixels) > 0 /\ v.frame_total = 0
         THEN [raised |-> TRUE, frames |-> <<>>, cap_left_open |-> TRUE]
         ELSE [raised |-> FALSE, frames |-> EveryNth(v.pixels, stride),
               cap_left_open |-> FALSE]

----------------------------------------------------------------------------
(* compute_video_motion_energy *)

RECURSIVE SumAbsDiff(_, _)
SumAbsDiff(f, g) ==
    IF f = <<>> THEN 0
    ELSE Abs(Head(g) - Head(f)) + SumAbsDiff(Tail(f), Tail(g))

(* np.reshape of no frames at all to (0, -1) raises ValueError *)
compute_video_motion_energy(v) ==
    LET r == read_nth_frames(v, 1)
    IN  IF r.raised \/ Len(r.frames) = 0
        THEN [raised |-> TRUE, me |-> <<>>, cap_left_open |-> r.cap_left_open]
        ELSE [raised |-> FALSE,
              me |-> [i \in 1..Len(r.frames) |->
                         IF i = 1 THEN Num(0)
                         ELSE Num(SumAbsDiff(r.frames[i - 1], r.frames[i]))],
              cap_left_open |-> r.cap_left_open]

----------------------------------------------------------------------------
(* make_video_snippet *)

(* int(fps * clip_length) *)
WinLen(fps2, clip) == (fps2 * clip) \div 2

IsStrictlyShortVideo(win_len, n_frames) == win_len > n_frames

(* line 205: short video, no need to shorten further *)
IsShortVideo(win_len, n_frames) == win_len >= n_frames

(* df_me.rolling(window=win_len, center=False).mean(): the value at 1-based *)
(* index i is over energy[i-win_len+1 .. i], not-a-number while the window  *)
(* is not filled or holds a not-a-number.  Kept as the window's sum, that   *)
(* is in units of 1/win_len.                                                *)
RollingMean(energy, win_len) ==
    [i \in 1..Len(energy) |->
        IF i < win_len \/ \E j \in (i - win_len + 1)..i : IsNaN(energy[j])
        THEN NaN
        ELSE Num(SumSeq([j \in 1..win_len |-> Val(energy[i - win_len + j])]))]

(* Series.argmax(): the 0-based position of the first largest value that is *)
(* a number; on a series without any, -1 or ValueError with the pandas      *)
(* version.                                                                 *)
ArgMax(series, allnan) ==
    LET valid == {i \in 1..Len(series) : ~IsNaN(series[i])}
    IN  IF valid = {}
        THEN IF allnan = "raises"
             THEN [raised |-> TRUE, at |-> 0]
             ELSE [raised |-> FALSE, at |-> -1]
        ELSE [raised |-> FALSE,
              at |-> (CHOOSE i \in valid :
                         /\ \A j \in valid : Val(series[j]) <= Val(series[i])
                         /\ \A j \in valid : j < i => Val(series[j]) < Val(series[i])) - 1]

(* line 225: clip_start_idx = df_me_win.me.argmax() - win_len *)
ClipStartIdx(argmax, win_len) == argmax - win_len

(* int(a / b) for b > 0: truncation towards zero *)
TruncDiv(a, b) == IF a >= 0 THEN a \div b ELSE -((-a) \div b)

(* lines 227-230: int(clip_start_idx / fps), 0 when negative *)
ClipStartSec(idx, fps2) ==
    LET sec == TruncDiv(2 * idx, fps2)
    IN  IF sec < 0 THEN 0 ELSE sec

Absent == [kind |-> "absent"]

Existing == [kind |-> "existing"]

DstAlwaysMissing(dstfile) == TRUE

(* lines 209 and 233: not os.path.exists(dst) *)
DstMissing(dstfile) == dstfile = Absent

VideoHandle == "make_video_snippet.video"

CapHandle == "read_nth_frames.cap"

(* The whole call: what it returns and what it does to the destination,    *)
(* given whether ffmpeg, when run, writes its output.                      *)
make_video_snippet(v, preds, table, thresh, clip, dstfile, allnan, ffmpeg_ok) ==
    LET fps2 == CapFps2(v)
        win_len == WinLen(fps2, clip)
        n_frames == CapFrameCount(v)
        open == IF Opens(v) THEN {VideoHandle} ELSE {}
        raise(e, cap) ==
            [status |-> "raised", dst |-> dstfile, me |-> e, copy |-> 0, trim |-> 0,
             leaked |-> open \cup cap]
    IN  IF IsShortVideo(win_len, n_frames)
        THEN IF ~DstMissing(dstfile)
             THEN [status |-> "ok", idx |-> 0, sec |-> 0, dst |-> dstfile,
                   me |-> 0, copy |-> 0, trim |-> 0, leaked |-> open]
             ELSE IF ~v.exists
                  THEN \* shutil.copyfile: FileNotFoundError
                       [status |-> "raised", dst |-> dstfile, me |-> 0, copy |-> 1,
                        trim |-> 0, leaked |-> open]
                  ELSE [status |-> "ok", idx |-> 0, sec |-> 0,
                        dst |-> [kind |-> "copy", of |-> v],
                        me |-> 0, copy |-> 1, trim |-> 0, leaked |-> open]
        ELSE LET m == IF preds = "none"
                      THEN compute_video_motion_energy(v)
                      ELSE [raised |-> FALSE,
                            me |-> compute_motion_energy_from_predection_df(table, thresh),
                            cap_left_open |-> FALSE]
                 cap == IF m.cap_left_open THEN {CapHandle} ELSE {}
             IN  IF m.raised THEN raise(1, cap)
                 ELSE LET a == ArgMax(RollingMean(m.me, win_len), allnan)
                          idx == ClipStartIdx(a.at, win_len)
                          sec == ClipStartSec(idx, fps2)
                      IN  IF a.raised THEN raise(1, cap)
                          ELSE [status |-> "ok", idx |-> idx, sec |-> sec,
                                dst |-> IF ~DstMissing(dstfile) THEN dstfile
                                        ELSE IF ffmpeg_ok
                                             THEN [kind |-> "clip", ss |-> sec, t |-> clip]
                                             ELSE Absent,
                                me |-> 1, copy |-> 0,
                                trim |-> IF ~DstMissing(dstfile) THEN 0 ELSE 1,
                                leaked |-> open \cup cap]

MaxFrames == 4

MaxFps2 == 3

MaxClip == 2

MaxCalls == 2

NotCalled == [status |-> "not called"]

MakeVideoSnippet ==
    /\ calls < MaxCalls
    /\ \E ffmpeg_ok \in BOOLEAN :
          \E r \in {make_video_snippet(video, preds_file, df, likelihood_thresh,
                                       clip_length, dst, pandas_allnan, ffmpeg_ok)} :
              /\ ret' = IF r.status = "ok"
                        THEN [status |-> "ok", idx |-> r.idx, sec |-> r.sec]
                        ELSE [status |-> "raised"]
              /\ dst' = r.dst
              /\ n_me' = n_me + r.me
              /\ n_copy' = n_copy + r.copy
              /\ n_trim' = n_trim + r.trim
              /\ leaked' = leaked \cup r.leaked
    /\ calls' = calls + 1
    /\ UNCHANGED <<meVars, video, readVars, preds_file, clip_length, pandas_allnan, copyVars>>

----------------------------------------------------------------------------
(* copy_and_reformat_video *)

VideoNames == {"a.avi", "b.mp4"}

VideoFile(name, codec) == [kind |-> "video", of |-> name, codec |-> codec]

(* check_codec_format: h264 and yuv420p found in ffmpeg's report *)
check_codec_format(file) == file.codec = "h264"

(* reencode_video: subprocess.run(ffmpeg_cmd), whose outcome is not looked at *)
reencode_video(file, ffmpeg_ok) ==
    IF ffmpeg_ok THEN VideoFile(file.of, "h264") ELSE Absent

(* The whole call on the files at the source and destination paths. *)
copy_and_reformat_video(srcfile, dstfile, remove_old, ffmpeg_ok) ==
    IF dstfile # Absent
    THEN [value |-> "dst", src |-> srcfile, dst |-> dstfile]
    ELSE IF srcfile = Absent
    THEN [value |-> "None", src |-> srcfile, dst |-> dstfile]
    ELSE IF ~check_codec_format(srcfile)
    THEN [value |-> "dst",
          src |-> IF remove_old THEN Absent ELSE srcfile,
          dst |-> reencode_video(srcfile, ffmpeg_ok)]
    ELSE [value |-> "dst",
          src |-> IF remove_old THEN Absent ELSE srcfile,
          dst |-> srcfile]

CopyAndReformatVideo ==
    \E v \in VideoNames, remove_old \in BOOLEAN, ffmpeg_ok \in BOOLEAN :
        LET r == copy_and_reformat_video(src_fs[v], dst_fs[v], remove_old, ffmpeg_ok)
        IN  /\ src_fs' = [src_fs EXCEPT ![v] = r.src]
            /\ dst_fs' = [dst_fs EXCEPT ![v] = r.dst]
            /\ copy_ret' = [called |-> TRUE, video |-> v, remove_old |-> remove_old,
                            src_before |-> src_fs[v], dst_before |-> dst_fs[v],
                            value |-> r.value]
            /\ UNCHANGED <<meVars, video, readVars, snipVars>>

----------------------------------------------------------------------------
(* Specifications. *)

MaxStride == 2

NoObserver == [present |-> FALSE, progress |-> 0]

DefaultProgressDelta == ProgressScale \div 2

IdleME ==
    /\ df = <<>>
    /\ likelihood_thresh = DefaultLikelihoodThresh
    /\ me = NoReturn

IdleRead ==
    /\ n = 1
    /\ work = NoObserver
    /\ progress_delta = DefaultProgressDelta
    /\ pc = "idle"
    /\ cap_open = FALSE
    /\ frames = <<>>
    /\ frame_counter = 0
    /\ progress_log = <<>>

IdleSnippet ==
    /\ preds_file = "none"
    /\ clip_length = 1
    /\ pandas_allnan = "minus one"
    /\ dst = Absent
    /\ ret = NotCalled
    /\ calls = 0
    /\ n_me = 0
    /\ n_copy = 0
    /\ n_trim = 0
    /\ leaked = {}

IdleCopy ==
    /\ src_fs = [v \in VideoNames |-> Absent]
    /\ dst_fs = [v \in VideoNames |-> Absent]
    /\ copy_ret = [called |-> FALSE]

(* -- the keypoint estimator applied to every small table -- *)

InitME ==
    /\ df \in SeqsUpTo(TableRows, MaxRows) \ {<<>>}
    /\ likelihood_thresh \in ConfLevels
    /\ me = NoReturn
    /\ video = MissingVideo
    /\ IdleRead /\ IdleSnippet /\ IdleCopy

ComputeME ==
    /\ ~me.returned
    /\ me' = Returned(compute_motion_energy_from_predection_df(df, likelihood_thresh))
    /\ UNCHANGED <<df, likelihood_thresh, video, readVars, snipVars, copyVars>>

NextME == ComputeME

SpecME == InitME /\ [][NextME]_vars

(* -- read_nth_frames on every small video -- *)

UnreadableVideo == [MissingVideo EXCEPT !.exists = TRUE]

ReadableVideos(totals) ==
    {[exists |-> TRUE, openable |-> TRUE, fps2 |-> f, frame_total |-> t, pixels |-> p] :
        f \in 2..MaxFps2, t \in totals, p \in SeqsUpTo(FrameValues, MaxFrames)}

InitRead ==
    /\ video \in {MissingVideo, UnreadableVideo}
                 \cup {v \in ReadableVideos(0..MaxFrames) : v.fps2 = 2}
    /\ n \in 1..MaxStride
    /\ work \in {NoObserver}
                \cup {[present |-> TRUE, progress |-> p] :
                         p \in {0, FullProgress \div 2, FullProgress}}
    /\ progress_delta \in {DefaultProgressDelta, FullProgress \div 2}
    /\ pc = "start"
    /\ cap_open = FALSE
    /\ frames = <<>>
    /\ frame_counter = 0
    /\ progress_log = <<work.progress>>
    /\ IdleME /\ IdleSnippet /\ IdleCopy

NextRead == RnfOpen \/ RnfReadFrame \/ RnfRelease

SpecRead == InitRead /\ [][NextRead]_vars

(* -- copy_and_reformat_video on a directory of two videos -- *)

InitCopy ==
    /\ src_fs \in [VideoNames -> {Absent} \cup {VideoFile("src", c) : c \in {"h264", "other"}}]
    /\ dst_fs \in [VideoNames -> {Absent, Existing}]
    /\ copy_ret = [called |-> FALSE]
    /\ video = MissingVideo
    /\ IdleME /\ IdleRead /\ IdleSnippet

NextCopy == CopyAndReformatVideo

SpecCopy == InitCopy /\ [][NextCopy]_vars

(* -- make_video_snippet, called up to MaxCalls times on the same video -- *)

TrackCells == {[x |-> 0, y |-> 0, c |-> DefaultLikelihoodThresh],
               [x |-> 3, y |-> 4, c |-> DefaultLikelihoodThresh],
               [x |-> 0, y |-> 0, c |-> DefaultLikelihoodThresh - 1]}

TrackRows == {<<c>> : c \in TrackCells}

Init ==
    /\ \/ /\ preds_file = "none"
          /\ df = <<>>
          /\ pandas_allnan = "minus one"
          /\ video \in {MissingVideo, UnreadableVideo}
                       \cup {v \in ReadableVideos(0..(MaxFrames + 1)) :
                                v.frame_total \in {Len(v.pixels), Len(v.pixels) + 1}}
       \/ /\ preds_file = "given"
          /\ df \in SeqsUpTo(TrackRows, MaxFrames) \ {<<>>}
          /\ pandas_allnan \in {"minus one", "raises"}
          /\ video \in {v \in ReadableVideos(0..MaxFrames) : v.pixels = <<>>}
    /\ likelihood_thresh = DefaultLikelihoodThresh
    /\ me = NoReturn
    /\ clip_length \in 1..MaxClip
    /\ dst \in {Absent, Existing}
    /\ ret = NotCalled
    /\ calls = 0
    /\ n_me = 0
    /\ n_copy = 0
    /\ n_trim = 0
    /\ leaked = {}
    /\ IdleRead /\ IdleCopy

Next == MakeVideoSnippet

Spec == Init /\ [][Next]_vars

----------------------------------------------------------------------------
(* Properties of the keypoint estimator (SpecME). *)

RECURSIVE SumOver(_, _)
SumOver(S, f) ==
    IF S = {} THEN 0
    ELSE LET k == CHOOSE e \in S : TRUE
         IN  f[k] + SumOver(S \ {k}, f)

(* the keypoints at or above the threshold in both frame i-1 and frame i *)
KeptKeypoints(i) ==
    {k \in 1..Len(df[i]) :
        df[i - 1][k].c >= likelihood_thresh /\ df[i][k].c >= likelihood_thresh}

Moved(i) ==
    [k \in 1..Len(df[i]) |->
        ISqrt((df[i][k].x - df[i - 1][k].x) * (df[i][k].x - df[i - 1][k].x)
            + (df[i][k].y - df[i - 1][k].y) * (df[i][k].y - df[i - 1][k].y))]

----------------------------------------------------------------------------
(* Properties of read_nth_frames (SpecRead). *)

(* C9: with an observer whose progress starts in [0, 100], every value      *)
(* written to work.progress lies in [0, 100] and the values never decrease, *)
(* however many frames are read; and the frames returned are those of the   *)
(* call without observer.                                                   *)
C9_ProgressMonotone ==
    /\ \A i \in 1..Len(progress_log) :
          /\ 0 <= progress_log[i] /\ progress_log[i] <= FullProgress
          /\ i > 1 => progress_log[i - 1] <= progress_log[i]
    /\ work.progress = progress_log[Len(progress_log)]
    /\ ~work.present => Len(progress_log) = 1
    /\ pc = "done" => frames = read_nth_frames(video, n).frames
    /\ pc = "raised" => read_nth_frames(video, n).raised

(* more frames read than the container reported, progress written and capped *)
C9_Witness ==
    /\ pc = "done"
    /\ work.present
    /\ frame_counter > video.frame_total
    /\ Len(progress_log) >= 3
    /\ work.progress = FullProgress
    /\ Len(frames) >= 2

----------------------------------------------------------------------------
(* Properties of make_video_snippet (Spec). *)

WindowFrames == (CapFps2(video) * clip_length) \div 2

TotalFrames == CapFrameCount(video)

NeedsTrimming == WindowFrames < TotalFrames

(* the motion energy the call computes for the video of this state *)
Energy ==
    IF preds_file = "none"
    THEN compute_video_motion_energy(video).me
    ELSE compute_motion_energy_from_predection_df(df, likelihood_thresh)

(* C1: when the video needs trimming (and the energy sequence has one value *)
(* per frame), the returned start frame index lies in                       *)
(* 0 .. total_frames - window_frames.                                       *)
C1_StartInRange ==
    (ret.status = "ok" /\ NeedsTrimming /\ Len(Energy) = TotalFrames) =>
        0 <= ret.idx /\ ret.idx <= TotalFrames - WindowFrames

(* the 0-based frames first..last are the only ones with motion energy *)
IsBurst(first, last) ==
    /\ first <= last
    /\ \A i \in 1..Len(Energy) :
          (first <= i - 1 /\ i - 1 <= last) <=> (Energy[i] # Num(0))

(* C2: a single burst of motion shorter than the window lies wholly inside  *)
(* the selected window [start, start + window_frames).                      *)
C2_BurstContained ==
    (ret.status = "ok" /\ NeedsTrimming /\ preds_file = "none"
        /\ Len(Energy) = TotalFrames) =>
        \A first, last \in 0..(Len(Energy) - 1) :
            (IsBurst(first, last) /\ last - first + 1 < WindowFrames) =>
                ret.idx <= first /\ last < ret.idx + WindowFrames

(* C3: when the window start the call computes is undefined (the trailing   *)
(* moving average is not-a-number throughout) or negative, the call returns *)
(* start index 0 and start seconds 0.0.                                     *)
C3_FallbackZero ==
    (calls > 0 /\ NeedsTrimming /\ pandas_allnan = "minus one"
        /\ Len(Energy) > 0
        /\ (preds_file = "none" => Len(Energy) = TotalFrames)
        /\ ArgMax(RollingMean(Energy, WindowFrames), pandas_allnan).at < WindowFrames) =>
        ret = [status |-> "ok", idx |-> 0, sec |-> 0]

(* C4: when floor(fps * clip_length) >= total_frames, a call returns start  *)
(* index 0 and start seconds 0.0 (and does return when the source or the    *)
(* destination exists), computes no motion energy, runs no trimming, and    *)
(* changes the destination only from absent to a copy of the whole source.  *)
C4_ShortVideo ==
    [][(calls' = calls + 1 /\ WindowFrames >= TotalFrames) =>
          /\ (video.exists \/ dst # Absent) => ret'.status = "ok"
          /\ ret'.status = "ok" => ret'.idx = 0 /\ ret'.sec = 0
          /\ n_me' = n_me
          /\ n_trim' = n_trim
          /\ dst # Absent => dst' = dst /\ n_copy' = n_copy
          /\ dst' # dst => dst' = [kind |-> "copy", of |-> video]]_vars

(* a readable video no longer than the window was copied whole *)
C4_Witness ==
    /\ Opens(video)
    /\ TotalFrames > 0
    /\ WindowFrames >= TotalFrames
    /\ ret = [status |-> "ok", idx |-> 0, sec |-> 0]
    /\ dst = [kind |-> "copy", of |-> video]
    /\ n_copy = 1
    /\ n_me = 0

(* C5 as stated: a call that finds the destination in place after an        *)
(* earlier call recomputes nothing (no motion energy, no copy, no trimming) *)
(* and returns the earlier call's triple.                                   *)
C5_NoRecomputation ==
    [][(calls' = calls + 1 /\ ret.status = "ok" /\ dst # Absent) =>
          /\ ret' = ret
          /\ n_me' = n_me
          /\ n_copy' = n_copy
          /\ n_trim' = n_trim]_vars

(* C5 as amended: such a call copies nothing, trims nothing, leaves the     *)
(* destination as it is and returns the earlier call's triple.              *)
C5_Idempotent ==
    [][(calls' = calls + 1 /\ ret.status = "ok" /\ dst # Absent) =>
          /\ ret' = ret
          /\ dst' = dst
          /\ n_copy' = n_copy
          /\ n_trim' = n_trim]_vars

(* a second call on a trimmed video: energy computed twice, trimmed once *)
C5_Witness ==
    /\ calls = 2
    /\ ret.status = "ok"
    /\ dst.kind = "clip"
    /\ n_me = 2
    /\ n_trim = 1

(* C6: no call ends with a video-stream handle still open. *)
C6_HandlesReleased == leaked = {}

(* C7: for a video that cannot be opened the call fails: no success triple, *)
(* no copy, no trimming.                                                    *)
C7_UnopenableIsFatal ==
    (calls > 0 /\ ~Opens(video)) =>
        /\ ret.status = "raised"
        /\ n_copy = 0
        /\ n_trim = 0
        /\ dst.kind \in {"absent", "existing"}

----------------------------------------------------------------------------
(* Properties of copy_and_reformat_video (SpecCopy). *)

(* C10: after a call on a video that had a file at the source or at the     *)
(* destination path, one of the two paths still holds a file; a returned    *)
(* destination path holds a file; and a destination in place on entry       *)
(* leaves the source untouched.                                             *)
C10_NeverLoses ==
    copy_ret.called =>
        /\ (copy_ret.src_before # Absent \/ copy_ret.dst_before # Absent) =>
              (src_fs[copy_ret.video] # Absent \/ dst_fs[copy_ret.video] # Absent)
        /\ copy_ret.value = "dst" => dst_fs[copy_ret.video] # Absent
        /\ copy_ret.dst_before # Absent => src_fs[copy_ret.video] = copy_ret.src_before

====
